---- MODULE Spec2Model ----
(***************************************************************************)
(* cconsent core: StorageAdapter (persistence of one consent record),      *)
(* ConsentManager (five-category consent state, migration, callbacks) and  *)
(* ScriptManager (gating of scripts and iframes by category expression).   *)
(*                                                                         *)
(* JavaScript values are modelled as follows.                              *)
(*  - An optional value (undefined, null, a missing property) is a set     *)
(*    with at most one element: {} is undefined/null, {v} is v.            *)
(*  - A parsed JSON value is a record with a `kind` and the properties the *)
(*    code reads, each optional.                                           *)
(*  - A stored string is a record [fmt, uri, val]: fmt tells what the      *)
(*    characters are (JSON text, Base64 of JSON text, neither, or the      *)
(*    empty string), uri whether they are percent-encoded, val the JSON    *)
(*    value the text denotes, if any.                                      *)
(*  - A thrown exception is the field err of an operation's result.        *)
(***************************************************************************)
EXTENDS Integers, Sequences, FiniteSets, TLC

\* ------------------------------------------------------------------ bounds
\* At most MaxPending decision operations await their callback at once.
MaxPending == 1

\* Category expressions are tried up to MaxAttrLen characters.
MaxAttrLen == 5

\* ------------------------------------------------------- program constants
\* Default cookie lifetime in days.
DefaultExpires == 365
\* new Date().toISOString() during this session, and a timestamp written by
\* an earlier session.
Now == 1
Earlier == 0

\* Consent IDs that generateUUID can produce, and one left by an earlier session.
Ids == {"u1", "u2"}
OldId == "u0"

VARIABLES
    \* StorageAdapter configuration
    storageMethod,      \* "localStorage" | "cookie"
    encryption,         \* BOOLEAN
    \* browser storage and the adapter's cookie options: [ls, jar, opts]
    be,
    fault,              \* the backend accesses ("read", "write", "remove") that throw,
                        \* and "reject" when the browser rejects cookies
    \* ConsentManager
    generateConsentId,  \* BOOLEAN
    legacyMode,         \* BOOLEAN
    categories,         \* the five flags
    consentId,          \* optional string
    \* what the caller of the last operation observed
    last,
    pendingCalls,       \* decision operations awaiting their callback's promise
    \* ScriptManager
    managedScripts,     \* sequence of ManagedScript
    managedIframes,     \* sequence of ManagedIframe
    observer,           \* BOOLEAN: a MutationObserver is installed
    \* the page
    dom,                \* the tagged elements of the page, by element
    mutations,          \* mutation records not yet delivered to the observer
    \* a call of shouldAllow by the page
    askedAttr,       \* its argument
    result              \* what it returned, if it was called

saVars == <<storageMethod, encryption, be, fault>>
cmVars == <<generateConsentId, legacyMode, categories, consentId>>
obsVars == <<last, pendingCalls>>
smVars == <<managedScripts, managedIframes, observer>>
pageVars == <<dom, mutations>>
exprVars == <<askedAttr, result>>
vars == <<saVars, cmVars, obsVars, smVars, pageVars, exprVars>>

\* ------------------------------------------------------------ JS values
Undefined == {}
Def(x) == {x}
Val(o) == CHOOSE v \in o : TRUE
\* a ?? b
Nullish(o, d) == IF o = {} THEN d ELSE Val(o)

CategoryNames == {"necessary", "functional", "preferences", "analytics", "marketing"}
OptionalNames == {"functional", "preferences", "analytics", "marketing"}

\* A JSON object with the properties of a ConsentState, each possibly missing.
JsonObject(version, nec, fun, pref, ana, mkt, ts, id) ==
    [kind |-> "object", scalar |-> Undefined,
     version |-> version, necessary |-> nec, functional |-> fun,
     preferences |-> pref, analytics |-> ana, marketing |-> mkt,
     timestamp |-> ts, consentId |-> id]

EmptyObject == JsonObject({}, {}, {}, {}, {}, {}, {}, {})

\* A JSON number, string or boolean, by its JSON text. Reading a property of
\* it gives undefined, as reading a missing property of an object does.
JsonScalar(kind, text) == [EmptyObject EXCEPT !.kind = kind, !.scalar = Def(text)]

\* JavaScript truthiness of a parsed JSON value.
Truthy(v) ==
    CASE v.kind = "object" -> TRUE
      [] v.kind = "number" -> v.scalar # Def("0")
      [] v.kind = "string" -> v.scalar # Def("")
      [] v.kind = "boolean" -> v.scalar = Def("true")

\* ------------------------------------------------------- StorageAdapter
\* JSON.stringify: properties whose value is undefined are not written, which
\* the optional-value representation already identifies with missing ones.
JSONstringify(data) == [fmt |-> "json", uri |-> FALSE, val |-> Def(data)]

\* btoa(unescape(encodeURIComponent(s))): defined on every JSON text.
btoa(s) == [s EXCEPT !.fmt = "b64"]

\* JSON.parse: [ok, val]. Only unescaped JSON text parses.
JSONparse(s) ==
    IF s.fmt = "json" /\ ~s.uri THEN [ok |-> TRUE, val |-> s.val]
    ELSE [ok |-> FALSE, val |-> Undefined]

\* decodeURIComponent(escape(atob(s))): [ok, str]. atob throws on characters
\* outside the Base64 alphabet ('{', '"', '%').
atob(s) ==
    IF s.fmt = "b64" /\ ~s.uri THEN [ok |-> TRUE, str |-> [s EXCEPT !.fmt = "json"]]
    ELSE [ok |-> FALSE, str |-> s]

encode(data) ==
    LET jsonString == JSONstringify(data)
    IN  IF encryption THEN btoa(jsonString) ELSE jsonString

\* Faulty variant: the configuration decides which decoding is tried.
decode_ByConfiguration(encodedData) ==
    IF encodedData.fmt = "empty" THEN Undefined
    ELSE IF encryption
         THEN LET decoded == atob(encodedData)
              IN  IF decoded.ok /\ JSONparse(decoded.str).ok
                  THEN JSONparse(decoded.str).val
                  ELSE Undefined
         ELSE JSONparse(encodedData).val

decode(encodedData) ==
    IF encodedData.fmt = "empty" THEN Undefined
    ELSE LET plain == JSONparse(encodedData)
         IN  IF plain.ok THEN plain.val
             ELSE LET decoded == atob(encodedData)
                  IN  IF decoded.ok /\ JSONparse(decoded.str).ok
                      THEN JSONparse(decoded.str).val
                      ELSE Undefined

\* document.cookie = cookieString: the browser stores the cookie, or removes
\* it when the expiry lies in the past; a browser that rejects the cookie
\* (cookies disabled, Secure on an insecure page, a foreign domain) ignores
\* the assignment without an exception.
DocumentCookieAssign(b, value, expired) ==
    IF "reject" \in fault THEN b
    ELSE [b EXCEPT !.jar = IF expired THEN {} ELSE Def(value)]

encodeURIComponent(s) == [s EXCEPT !.uri = TRUE]
decodeURIComponent(s) == [s EXCEPT !.uri = FALSE]

setCookie(b, value) ==
    LET opts == b.opts
    IN  DocumentCookieAssign(b, encodeURIComponent(value), opts.expires < 0)

getCookie(b) ==
    IF b.jar = {} THEN Undefined ELSE Def(decodeURIComponent(Val(b.jar)))

\* Faulty variant: the expiry is put in the past by changing the adapter's options and
\* writing an empty cookie with them.
deleteCookie_MutatingOptions(b) ==
    LET b1 == [b EXCEPT !.opts.expires = -1]
    IN  DocumentCookieAssign(b1, [fmt |-> "empty", uri |-> FALSE, val |-> Undefined],
                             b1.opts.expires < 0)

deleteCookie(b) ==
    DocumentCookieAssign(b, [fmt |-> "empty", uri |-> FALSE, val |-> Undefined], TRUE)

\* The try blocks of save, load and clear: the backend access, which throws
\* when the backend does (threw), before anything is changed.
saveTry(b, encoded) ==
    IF "write" \in fault THEN [be |-> b, threw |-> TRUE]
    ELSE IF storageMethod = "cookie"
         THEN [be |-> setCookie(b, encoded), threw |-> FALSE]
         ELSE [be |-> [b EXCEPT !.ls = Def(encoded)], threw |-> FALSE]

loadTry(b) ==
    IF "read" \in fault THEN [val |-> Undefined, threw |-> TRUE]
    ELSE LET stored == IF storageMethod = "cookie" THEN getCookie(b) ELSE b.ls
         IN  IF stored = {} \/ Val(stored).fmt = "empty"
             THEN [val |-> Undefined, threw |-> FALSE]
             ELSE [val |-> decode(Val(stored)), threw |-> FALSE]

clearTry(b) ==
    IF "remove" \in fault THEN [be |-> b, threw |-> TRUE]
    ELSE IF storageMethod = "cookie"
         THEN [be |-> deleteCookie(b), threw |-> FALSE]
         ELSE [be |-> [b EXCEPT !.ls = {}], threw |-> FALSE]

\* Faulty variant: save() without its catch clause.
SA_save_Uncaught(b, consent) ==
    LET r == saveTry(b, encode(consent))
    IN  [be |-> r.be, err |-> r.threw]

\* StorageAdapter.save: [be, err]; the catch clause warns and returns.
SA_save(b, consent) ==
    LET r == saveTry(b, encode(consent))
    IN  [be |-> r.be, err |-> FALSE]

\* StorageAdapter.load: [val, err]; the catch clause warns and returns null.
SA_load(b) ==
    LET r == loadTry(b)
    IN  [val |-> IF r.threw THEN Undefined ELSE r.val, err |-> FALSE]

\* StorageAdapter.clear: [be, err]
SA_clear(b) ==
    LET r == clearTry(b)
    IN  [be |-> r.be, err |-> FALSE]

\* A string is truthy unless it is empty.
NonEmpty(str) == str # {} /\ Val(str).fmt # "empty"

\* Faulty variant: the record is moved whether or not a cookie exists already.
migrateToStorage_Overwriting(b) ==
    IF storageMethod # "cookie" THEN [be |-> b, err |-> FALSE]
    ELSE IF "read" \in fault THEN [be |-> b, err |-> FALSE]
    ELSE LET localData == b.ls
             consent == decode(Val(localData))
             saved == SA_save(b, Val(consent))
         IN  IF NonEmpty(localData) /\ consent # {} /\ Truthy(Val(consent))
             THEN IF "remove" \in fault THEN [be |-> saved.be, err |-> FALSE]
                  ELSE [be |-> [saved.be EXCEPT !.ls = {}], err |-> FALSE]
             ELSE [be |-> b, err |-> FALSE]

\* StorageAdapter.migrateToStorage: [be, err]. localStorage.getItem and
\* localStorage.removeItem throw when the backend does; the catch clause
\* ignores it, after what was done before the throw.
migrateToStorage(b) ==
    IF storageMethod # "cookie" THEN [be |-> b, err |-> FALSE]
    ELSE IF "read" \in fault THEN [be |-> b, err |-> FALSE]
    ELSE LET localData == b.ls
             consent == decode(Val(localData))
             saved == SA_save(b, Val(consent))
         IN  IF NonEmpty(localData) /\ ~NonEmpty(getCookie(b))
                /\ consent # {} /\ Truthy(Val(consent))
             THEN IF "remove" \in fault THEN [be |-> saved.be, err |-> FALSE]
                  ELSE [be |-> [saved.be EXCEPT !.ls = {}], err |-> FALSE]
             ELSE [be |-> b, err |-> FALSE]

\* ------------------------------------------------------- ConsentManager
\* The manager's fields and the storage it writes, threaded through the
\* statements of one method: [categories, consentId, be].
DefaultCategories ==
    [necessary |-> TRUE, functional |-> FALSE, preferences |-> FALSE,
     analytics |-> FALSE, marketing |-> FALSE]

AllCategories ==
    [necessary |-> TRUE, functional |-> TRUE, preferences |-> TRUE,
     analytics |-> TRUE, marketing |-> TRUE]

\* Faulty variant: the migrated record is stamped with the time of the migration.
migrateV1toV2_Restamped(oldConsent, now) ==
    JsonObject(Def("2.0"), Def(TRUE), Def(FALSE), Def(FALSE),
               Def(Nullish(oldConsent.analytics, FALSE)),
               Def(Nullish(oldConsent.marketing, FALSE)),
               Def(now),
               oldConsent.consentId)

migrateV1toV2(oldConsent, now) ==
    JsonObject(Def("2.0"), Def(TRUE), Def(FALSE), Def(FALSE),
               Def(Nullish(oldConsent.analytics, FALSE)),
               Def(Nullish(oldConsent.marketing, FALSE)),
               Def(Nullish(oldConsent.timestamp, now)),
               oldConsent.consentId)

getCallbackCategories(m) ==
    IF legacyMode
    THEN [necessary |-> m.categories.necessary,
          functional |-> FALSE,
          preferences |-> FALSE,
          analytics |-> m.categories.functional \/ m.categories.preferences
                            \/ m.categories.analytics,
          marketing |-> m.categories.marketing]
    ELSE m.categories

\* Faulty variant: without a stored record the state is put back to the defaults.
CM_load_ResettingOnMiss(m, now) ==
    LET read == SA_load(m.be)
        migrate == read.val # {} /\ Truthy(Val(read.val)) /\ Val(read.val).version = {}
        consent == IF migrate THEN Def(migrateV1toV2(Val(read.val), now)) ELSE read.val
        written == IF migrate THEN SA_save(m.be, Val(consent))
                   ELSE [be |-> m.be, err |-> FALSE]
        c == Val(consent)
    IN  IF read.err \/ written.err
        THEN [m |-> [m EXCEPT !.be = written.be], ret |-> Undefined,
              wrote |-> Undefined, err |-> TRUE]
        ELSE [m |-> IF consent # {} /\ Truthy(c)
                    THEN [categories |->
                             [necessary |-> TRUE,
                              functional |-> Nullish(c.functional, FALSE),
                              preferences |-> Nullish(c.preferences, FALSE),
                              analytics |-> Nullish(c.analytics, FALSE),
                              marketing |-> Nullish(c.marketing, FALSE)],
                          consentId |-> c.consentId,
                          be |-> written.be]
                    ELSE [categories |-> DefaultCategories, consentId |-> Undefined,
                          be |-> written.be],
              ret |-> consent,
              wrote |-> IF migrate THEN consent ELSE Undefined,
              err |-> FALSE]

\* ConsentManager.load: [m, ret, wrote, err]
CM_load(m, now) ==
    LET read == SA_load(m.be)
        migrate == read.val # {} /\ Truthy(Val(read.val)) /\ Val(read.val).version = {}
        consent == IF migrate THEN Def(migrateV1toV2(Val(read.val), now)) ELSE read.val
        written == IF migrate THEN SA_save(m.be, Val(consent))
                   ELSE [be |-> m.be, err |-> FALSE]
        c == Val(consent)
    IN  IF read.err \/ written.err
        THEN [m |-> [m EXCEPT !.be = written.be], ret |-> Undefined,
              wrote |-> Undefined, err |-> TRUE]
        ELSE [m |-> IF consent # {} /\ Truthy(c)
                    THEN [categories |->
                             [necessary |-> TRUE,
                              functional |-> Nullish(c.functional, FALSE),
                              preferences |-> Nullish(c.preferences, FALSE),
                              analytics |-> Nullish(c.analytics, FALSE),
                              marketing |-> Nullish(c.marketing, FALSE)],
                          consentId |-> c.consentId,
                          be |-> written.be]
                    ELSE [m EXCEPT !.be = written.be],
              ret |-> consent,
              wrote |-> IF migrate THEN consent ELSE Undefined,
              err |-> FALSE]

\* Faulty variant: save() generates an ID on every call.
CM_save_Regenerating(m, now, uuid) ==
    LET id == IF generateConsentId THEN Def(uuid) ELSE m.consentId
        consent == JsonObject(Def("2.0"), Def(m.categories.necessary),
                              Def(m.categories.functional), Def(m.categories.preferences),
                              Def(m.categories.analytics), Def(m.categories.marketing),
                              Def(now), id)
        written == SA_save(m.be, consent)
    IN  [m |-> [m EXCEPT !.consentId = id, !.be = written.be],
         wrote |-> Def(consent), err |-> written.err]

\* ConsentManager.save: [m, wrote, err]; uuid is what generateUUID returns.
CM_save(m, now, uuid) ==
    LET id == IF generateConsentId /\ m.consentId = {} THEN Def(uuid) ELSE m.consentId
        consent == JsonObject(Def("2.0"), Def(m.categories.necessary),
                              Def(m.categories.functional), Def(m.categories.preferences),
                              Def(m.categories.analytics), Def(m.categories.marketing),
                              Def(now), id)
        written == SA_save(m.be, consent)
    IN  [m |-> [m EXCEPT !.consentId = id, !.be = written.be],
         wrote |-> Def(consent), err |-> written.err]

\* What a callback does when invoked; "absent" is an unset callback field.
CallbackBehaviours == {"absent", "returns", "throws", "promise"}

\* Faulty variant: a rejected callback promise is swallowed.
awaitResult_Swallowing(outcome) == "resolved"

\* await result: the continuation after the callback's promise settled.
awaitResult(outcome) == IF outcome = "rejected" THEN "rejected" ELSE "resolved"

\* ConsentManager.executeCallback, up to its first suspension:
\* [payload, seen, cb, promise]. payload is the callback's argument; seen is
\* what the callback can read back at that moment, getCategories() and
\* storage.load(); promise is the state of the promise executeCallback returns.
executeCallback(m, cb) ==
    IF cb = "absent"
    THEN [payload |-> Undefined, seen |-> Undefined, cb |-> cb, promise |-> "resolved"]
    ELSE [payload |-> Def(getCallbackCategories(m)),
          seen |-> Def([categories |-> m.categories, stored |-> SA_load(m.be).val]),
          cb |-> cb,
          promise |-> CASE cb = "returns" -> "resolved"
                        [] cb = "throws" -> "rejected"
                        [] OTHER -> "pending"]

\* A storage exception escaping save() rejects the operation before the callback.
Escaped == [payload |-> Undefined, seen |-> Undefined, cb |-> "absent", promise |-> "rejected"]

\* ConsentManager.acceptAll / rejectAll / savePreferences: [m, wrote, call]
CM_acceptAll(m, now, uuid, cb) ==
    LET m1 == [m EXCEPT !.categories = AllCategories]
        s == CM_save(m1, now, uuid)
    IN  [m |-> s.m, wrote |-> s.wrote,
         call |-> IF s.err THEN Escaped ELSE executeCallback(s.m, cb)]

\* Faulty variant: the callback is invoked before the state is persisted.
CM_rejectAll_CallbackFirst(m, now, uuid, cb) ==
    LET m1 == [m EXCEPT !.categories = DefaultCategories]
        s == CM_save(m1, now, uuid)
    IN  [m |-> s.m, wrote |-> s.wrote,
         call |-> IF s.err THEN Escaped ELSE executeCallback(m1, cb)]

CM_rejectAll(m, now, uuid, cb) ==
    LET m1 == [m EXCEPT !.categories = DefaultCategories]
        s == CM_save(m1, now, uuid)
    IN  [m |-> s.m, wrote |-> s.wrote,
         call |-> IF s.err THEN Escaped ELSE executeCallback(s.m, cb)]

\* Faulty variant: necessary is merged from the argument like the other keys.
CM_savePreferences_NecessaryMerged(m, input, now, uuid, cb) ==
    LET m1 == [m EXCEPT !.categories =
                  [necessary |-> Nullish(input.necessary, m.categories.necessary),
                   functional |-> Nullish(input.functional, m.categories.functional),
                   preferences |-> Nullish(input.preferences, m.categories.preferences),
                   analytics |-> Nullish(input.analytics, m.categories.analytics),
                   marketing |-> Nullish(input.marketing, m.categories.marketing)]]
        s == CM_save(m1, now, uuid)
    IN  [m |-> s.m, wrote |-> s.wrote,
         call |-> IF s.err THEN Escaped ELSE executeCallback(s.m, cb)]

\* Faulty variant: the merge uses || where the code uses ??, so a supplied false is lost.
CM_savePreferences_OrMerged(m, input, now, uuid, cb) ==
    LET m1 == [m EXCEPT !.categories =
                  [necessary |-> TRUE,
                   functional |-> input.functional = {TRUE} \/ m.categories.functional,
                   preferences |-> input.preferences = {TRUE} \/ m.categories.preferences,
                   analytics |-> input.analytics = {TRUE} \/ m.categories.analytics,
                   marketing |-> input.marketing = {TRUE} \/ m.categories.marketing]]
        s == CM_save(m1, now, uuid)
    IN  [m |-> s.m, wrote |-> s.wrote,
         call |-> IF s.err THEN Escaped ELSE executeCallback(s.m, cb)]

CM_savePreferences(m, input, now, uuid, cb) ==
    LET m1 == [m EXCEPT !.categories =
                  [necessary |-> TRUE,
                   functional |-> Nullish(input.functional, m.categories.functional),
                   preferences |-> Nullish(input.preferences, m.categories.preferences),
                   analytics |-> Nullish(input.analytics, m.categories.analytics),
                   marketing |-> Nullish(input.marketing, m.categories.marketing)]]
        s == CM_save(m1, now, uuid)
    IN  [m |-> s.m, wrote |-> s.wrote,
         call |-> IF s.err THEN Escaped ELSE executeCallback(s.m, cb)]

\* Faulty variant: reset() leaves the consent ID in place.
CM_reset_KeepingId(m) ==
    LET c == SA_clear(m.be)
    IN  IF c.err THEN [m |-> [m EXCEPT !.be = c.be], err |-> TRUE]
        ELSE [m |-> [categories |-> DefaultCategories, consentId |-> m.consentId,
                     be |-> c.be],
              err |-> FALSE]

\* ConsentManager.reset: [m, err]
CM_reset(m) ==
    LET c == SA_clear(m.be)
    IN  IF c.err THEN [m |-> [m EXCEPT !.be = c.be], err |-> TRUE]
        ELSE [m |-> [categories |-> DefaultCategories, consentId |-> Undefined, be |-> c.be],
              err |-> FALSE]

\* Names of properties every object literal inherits from Object.prototype.
InheritedKeys == {"constructor", "toString"}

\* this.categories[category] ?? false on the categories c, as its truthiness:
\* an own property gives its flag, an inherited one the function it names
\* (not nullish, so ?? keeps it), any other name undefined and so false.
categoryLookup(c, category) ==
    IF category \in CategoryNames THEN c[category]
    ELSE category \in InheritedKeys

\* ConsentManager.isAllowed / getCategories / getConsentId
isAllowed(category) == categoryLookup(categories, category)
getCategories == categories
getConsentId == consentId

\* Faulty variant: necessary is counted with the optional categories.
getStatus_CountingNecessary(c) ==
    LET allowed == {cat \in CategoryNames : c[cat]}
    IN  IF Cardinality(allowed) = Cardinality(CategoryNames) THEN "all"
        ELSE IF Cardinality(allowed) > 0 THEN "partial"
        ELSE "essential"

\* ConsentManager.getStatus on the categories c.
getStatus(c) ==
    LET optional == OptionalNames
        allowed == {cat \in optional : c[cat]}
    IN  IF Cardinality(allowed) = Cardinality(optional) THEN "all"
        ELSE IF Cardinality(allowed) > 0 THEN "partial"
        ELSE "essential"

\* -------------------------------------------------------- ScriptManager
\* A string is the sequence of its characters. The characters tried are the
\* space, the tab, '!' and two letters; the letters are written as the words
\* "analytics" and "marketing", so that the one-letter strings are category
\* names and every longer run of letters is a name of no category.
Whitespace == {" ", "\t"}
Characters == Whitespace \cup {"!", "analytics", "marketing"}

\* The string a category name is written as.
Str(name) == <<name>>

\* String.prototype.trim
trim(str) ==
    LET inner == {i \in 1..Len(str) : str[i] \notin Whitespace}
    IN  IF inner = {} THEN <<>>
        ELSE SubSeq(str, CHOOSE i \in inner : \A j \in inner : i <= j,
                         CHOOSE i \in inner : \A j \in inner : j <= i)

\* String.prototype.split(/\s+/): the pieces between the maximal runs of
\* whitespace; a string without whitespace, the empty one included, is one piece.
RECURSIVE split(_)
split(str) ==
    LET ws == {i \in 1..Len(str) : str[i] \in Whitespace}
    IN  IF ws = {} THEN <<str>>
        ELSE LET first == CHOOSE i \in ws : \A j \in ws : i <= j
                 rest == {i \in first..Len(str) : str[i] \notin Whitespace}
                 next == IF rest = {} THEN Len(str) + 1
                         ELSE CHOOSE i \in rest : \A j \in rest : i <= j
             IN  <<SubSeq(str, 1, first - 1)>> \o split(SubSeq(str, next, Len(str)))

\* cat.startsWith('!') and cat.slice(1)
startsWithBang(cat) == Len(cat) > 0 /\ cat[1] = "!"
slice1(cat) == SubSeq(cat, 2, Len(cat))

parseCategories(categoryAttr) ==
    LET cats == split(trim(categoryAttr))
        negated == SelectSeq(cats, startsWithBang)
    IN  [required |-> SelectSeq(cats, LAMBDA cat : ~startsWithBang(cat)),
         excluded |-> [i \in 1..Len(negated) |-> slice1(negated[i])]]

\* The predicate the ScriptManager is constructed with: the manager's isAllowed
\* on the categories c. On a string that is a category name it is membership
\* in the set of allowed categories.
isAllowedFn(cat, c) ==
    \E name \in CategoryNames \cup InheritedKeys :
        cat = Str(name) /\ categoryLookup(c, name)

\* Faulty variant: a satisfied requirement is honoured before the exclusions are looked at.
shouldAllow_RequiredFirst(categoryAttr, c) ==
    LET parsed == parseCategories(categoryAttr)
        required == parsed.required
        excluded == parsed.excluded
    IN  IF \E i \in 1..Len(required) : isAllowedFn(required[i], c) THEN TRUE
        ELSE IF \E i \in 1..Len(excluded) : isAllowedFn(excluded[i], c) THEN FALSE
        ELSE Len(required) = 0

shouldAllow(categoryAttr, c) ==
    LET parsed == parseCategories(categoryAttr)
        required == parsed.required
        excluded == parsed.excluded
    IN  IF \E i \in 1..Len(excluded) : isAllowedFn(excluded[i], c) THEN FALSE
        ELSE IF \E i \in 1..Len(required) : isAllowedFn(required[i], c) THEN TRUE
        ELSE Len(required) = 0

\* The tagged elements the page can insert, in document order, and what the
\* page gives each: its tag, its data-cookie-category and its source.
Elements == {"s1", "s2", "f1", "f2"}
DocOrder == <<"s1", "s2", "f1", "f2">>

Page ==
    [e \in Elements |->
        CASE e = "s1" -> [kind |-> "script", category |-> Str("analytics"),
                          src |-> TRUE, text |-> FALSE, type |-> "exec",
                          dataSrc |-> FALSE]
          [] e = "s2" -> [kind |-> "script", category |-> <<"!", "marketing">>,
                          src |-> FALSE, text |-> TRUE, type |-> "text/plain",
                          dataSrc |-> FALSE]
          [] e = "f1" -> [kind |-> "iframe",
                          category |-> <<"analytics", " ", "marketing">>,
                          src |-> TRUE, text |-> FALSE, type |-> "exec",
                          dataSrc |-> FALSE]
          [] e = "f2" -> [kind |-> "iframe", category |-> Str("marketing"),
                          src |-> FALSE, text |-> FALSE, type |-> "exec",
                          dataSrc |-> TRUE]]

\* A node of the page. where: of the element itself ("none": the page does
\* not have it, "absent": not inserted yet); inserted, newSrc, newText,
\* newType: the replacements allowScript put in the document in its place and
\* the attributes of the latest one; processed: data-cconsent-processed;
\* hidden: class cc-blocked and display none.
NodeOf(e, where) ==
    [where |-> where, src |-> Page[e].src, text |-> Page[e].text,
     type |-> Page[e].type, dataSrc |-> Page[e].dataSrc, processed |-> FALSE,
     hidden |-> FALSE, inserted |-> 0, newSrc |-> FALSE, newText |-> FALSE,
     newType |-> "exec"]

\* The script allowScript creates in place of a script element: it carries
\* data-cookie-category and data-cconsent-loaded.
ReplacementOf(e) == IF e = "s1" THEN "r1" ELSE "r2"
OriginalOf(n) == IF n = "r1" THEN "s1" ELSE "s2"
IsLoaded(n) == n \in {"r1", "r2"}
NodeKind(n) == IF IsLoaded(n) THEN "script" ELSE Page[n].kind

\* The ScriptManager's lists and the document they act on: [dom,
\* managedScripts, managedIframes].
InDocument(d, kind) ==
    SelectSeq(DocOrder, LAMBDA e : Page[e].kind = kind /\ d[e].where = "document")

\* document.querySelectorAll('script[data-cookie-category]'): in the place of
\* each script element the document holds the element or what replaced it.
TaggedScripts(d) ==
    LET there == SelectSeq(DocOrder,
                           LAMBDA e : /\ Page[e].kind = "script"
                                      /\ \/ d[e].where = "document"
                                         \/ d[e].where = "detached" /\ d[e].inserted > 0)
    IN  [i \in 1..Len(there) |->
            IF d[there[i]].where = "document" THEN there[i] ELSE ReplacementOf(there[i])]

\* The ManagedScript / ManagedIframe built by the scans and by processNew*.
\* element.node tells which node the entry points to: the element itself, the
\* replacement that was put in the document, or one that was not.
ManagedScript(d, n) ==
    IF IsLoaded(n)
    THEN [element |-> [of |-> OriginalOf(n), node |-> "inserted"],
          category |-> Page[OriginalOf(n)].category,
          originalSrc |-> d[OriginalOf(n)].newSrc,
          inlineContent |-> d[OriginalOf(n)].newText,
          blocked |-> FALSE, executed |-> FALSE]
    ELSE [element |-> [of |-> n, node |-> "original"], category |-> Page[n].category,
          originalSrc |-> d[n].src, inlineContent |-> d[n].text,
          blocked |-> FALSE, executed |-> FALSE]

ManagedIframe(d, e) ==
    [element |-> e, category |-> Page[e].category,
     originalSrc |-> d[e].dataSrc \/ d[e].src, blocked |-> FALSE]

scanScripts(g) ==
    LET scripts == SelectSeq(TaggedScripts(g.dom), LAMBDA n : ~IsLoaded(n))
    IN  [g EXCEPT !.managedScripts =
            [i \in 1..Len(scripts) |-> ManagedScript(g.dom, scripts[i])]]

scanIframes(g) ==
    LET iframes == SelectSeq(InDocument(g.dom, "iframe"),
                             LAMBDA e : ~g.dom[e].processed)
    IN  [g EXCEPT
            !.dom = [e \in Elements |->
                        IF \E i \in 1..Len(iframes) : iframes[i] = e
                        THEN [g.dom[e] EXCEPT !.processed = TRUE] ELSE g.dom[e]],
            !.managedIframes =
                [i \in 1..Len(iframes) |-> ManagedIframe(g.dom, iframes[i])]]

blockScript(g, i) ==
    LET script == g.managedScripts[i]
        e == script.element.of
        node == script.element.node
        d == g.dom
        d1 == IF script.originalSrc
              THEN CASE node = "original" ->
                            [d EXCEPT ![e].src = FALSE, ![e].type = "text/plain"]
                     [] node = "inserted" ->
                            [d EXCEPT ![e].newSrc = FALSE, ![e].newType = "text/plain"]
                     [] OTHER -> d
              ELSE IF script.inlineContent
              THEN CASE node = "original" ->
                            [d EXCEPT ![e].type = "text/plain", ![e].text = FALSE]
                     [] node = "inserted" ->
                            [d EXCEPT ![e].newType = "text/plain", ![e].newText = FALSE]
                     [] OTHER -> d
              ELSE d
    IN  [g EXCEPT !.dom = d1, !.managedScripts[i].blocked = TRUE]

\* Faulty variant: the executed flag is not set.
allowScript_ExecutedNotSet(g, i) ==
    LET script == g.managedScripts[i]
        e == script.element.of
        attached == \/ script.element.node = "original" /\ g.dom[e].where = "document"
                    \/ script.element.node = "inserted"
    IN  IF script.executed THEN g
        ELSE [g EXCEPT
                !.dom = IF attached
                        THEN [g.dom EXCEPT
                                 ![e].where = "detached",
                                 ![e].inserted = @ + 1,
                                 ![e].newSrc = script.originalSrc,
                                 ![e].newText = ~script.originalSrc /\ script.inlineContent,
                                 ![e].newType = "exec"]
                        ELSE g.dom,
                !.managedScripts[i].element.node =
                        IF attached THEN "inserted" ELSE "loose",
                !.managedScripts[i].blocked = FALSE]

\* replaceChild happens when the entry's element has a parent: the original
\* while it is in the document, or the replacement put there in its place.
allowScript(g, i) ==
    LET script == g.managedScripts[i]
        e == script.element.of
        attached == \/ script.element.node = "original" /\ g.dom[e].where = "document"
                    \/ script.element.node = "inserted"
    IN  IF script.executed THEN g
        ELSE [g EXCEPT
                !.dom = IF attached
                        THEN [g.dom EXCEPT
                                 ![e].where = "detached",
                                 ![e].inserted = @ + 1,
                                 ![e].newSrc = script.originalSrc,
                                 ![e].newText = ~script.originalSrc /\ script.inlineContent,
                                 ![e].newType = "exec"]
                        ELSE g.dom,
                !.managedScripts[i].element.node =
                        IF attached THEN "inserted" ELSE "loose",
                !.managedScripts[i].blocked = FALSE,
                !.managedScripts[i].executed = TRUE]

blockIframe(g, i) ==
    LET iframe == g.managedIframes[i]
        e == iframe.element
    IN  [g EXCEPT
            !.dom[e].dataSrc = @ \/ iframe.originalSrc,
            !.dom[e].src = FALSE,
            !.dom[e].hidden = TRUE,
            !.managedIframes[i].blocked = TRUE]

allowIframe(g, i) ==
    LET iframe == g.managedIframes[i]
        e == iframe.element
    IN  [g EXCEPT
            !.dom[e].src = @ \/ iframe.originalSrc,
            !.dom[e].hidden = FALSE,
            !.managedIframes[i].blocked = FALSE]

\* Faulty variant: a new script is registered and left to the next evaluate().
processNewScript_RegisterOnly(g, script, c) ==
    IF IsLoaded(script) THEN g
    ELSE [g EXCEPT !.managedScripts = Append(@, ManagedScript(g.dom, script))]

\* Faulty variant: a script carrying data-cconsent-loaded is processed like any other.
processNewScript_IgnoringMarker(g, script, c) ==
    LET g1 == [g EXCEPT !.managedScripts = Append(@, ManagedScript(g.dom, script))]
        i == Len(g1.managedScripts)
    IN  IF shouldAllow(g1.managedScripts[i].category, c)
        THEN allowScript(g1, i) ELSE blockScript(g1, i)

\* processNewScript / processNewIframe; c is the consent isAllowedFn reads.
processNewScript(g, script, c) ==
    IF IsLoaded(script) THEN g
    ELSE LET g1 == [g EXCEPT !.managedScripts = Append(@, ManagedScript(g.dom, script))]
             i == Len(g1.managedScripts)
         IN  IF shouldAllow(g1.managedScripts[i].category, c)
             THEN allowScript(g1, i) ELSE blockScript(g1, i)

processNewIframe(g, e, c) ==
    IF g.dom[e].processed THEN g
    ELSE LET g1 == [g EXCEPT !.dom[e].processed = TRUE,
                             !.managedIframes = Append(@, ManagedIframe(g.dom, e))]
             i == Len(g1.managedIframes)
         IN  IF shouldAllow(g1.managedIframes[i].category, c)
             THEN allowIframe(g1, i) ELSE blockIframe(g1, i)

\* Faulty variant: a script not yet executed is allowed whatever its category.
evaluateScript_Unconditional(g, i, c) ==
    IF ~g.managedScripts[i].executed THEN allowScript(g, i) ELSE g

\* The bodies of the two forEach loops of evaluate.
evaluateScript(g, i, c) ==
    LET script == g.managedScripts[i]
        allowed == shouldAllow(script.category, c)
    IN  IF allowed /\ ~script.executed THEN allowScript(g, i)
        ELSE IF ~allowed /\ ~script.blocked THEN blockScript(g, i)
        ELSE g

evaluateIframe(g, i, c) ==
    LET iframe == g.managedIframes[i]
        allowed == shouldAllow(iframe.category, c)
    IN  IF allowed /\ iframe.blocked THEN allowIframe(g, i)
        ELSE IF ~allowed /\ ~iframe.blocked THEN blockIframe(g, i)
        ELSE g

RECURSIVE forEachScript(_, _, _)
forEachScript(g, i, c) ==
    IF i > Len(g.managedScripts) THEN g
    ELSE forEachScript(evaluateScript(g, i, c), i + 1, c)

RECURSIVE forEachIframe(_, _, _)
forEachIframe(g, i, c) ==
    IF i > Len(g.managedIframes) THEN g
    ELSE forEachIframe(evaluateIframe(g, i, c), i + 1, c)

evaluate(g, c) == forEachIframe(forEachScript(g, 1, c), 1, c)

\* The observer's callback on one added node: the tagged scripts of its
\* subtree, then its tagged iframes.
RECURSIVE processEach(_, _, _, _)
processEach(g, nodes, i, c) ==
    IF i > Len(nodes) THEN g
    ELSE processEach(IF NodeKind(nodes[i]) = "script"
                     THEN processNewScript(g, nodes[i], c)
                     ELSE processNewIframe(g, nodes[i], c),
                     nodes, i + 1, c)

addedNode(g, subtree, c) ==
    LET scripts == SelectSeq(<<"s1", "r1", "s2", "r2">>, LAMBDA n : n \in subtree)
        iframes == SelectSeq(DocOrder, LAMBDA e : e \in subtree /\ Page[e].kind = "iframe")
    IN  processEach(g, scripts \o iframes, 1, c)

RECURSIVE observerCallback(_, _, _, _)
observerCallback(g, records, i, c) ==
    IF i > Len(records) THEN g
    ELSE observerCallback(addedNode(g, records[i], c), records, i + 1, c)

\* ------------------------------------------------------------- actions
Opt(S) == {{}} \cup {{x} : x \in S}

Partial(nec, fun, pref, ana, mkt) ==
    [necessary |-> nec, functional |-> fun, preferences |-> pref, analytics |-> ana,
     marketing |-> mkt]

NoInput == Partial({}, {}, {}, {}, {})

\* Arguments of savePreferences: each key omitted, true and false.
PartialInputs ==
    {NoInput,
     Partial({FALSE}, {}, {}, {}, {}),
     Partial({}, {TRUE}, {}, {}, {}),
     Partial({}, {}, {}, {}, {TRUE}),
     Partial({}, {TRUE}, {}, {TRUE}, {FALSE}),
     Partial({}, {}, {TRUE}, {FALSE}, {}),
     Partial({FALSE}, {FALSE}, {FALSE}, {FALSE}, {FALSE})}

\* Arguments that touch only analytics and marketing.
PageInputs ==
    {Partial({}, {}, {}, {TRUE}, {}),
     Partial({}, {}, {}, {FALSE}, {TRUE})}

CMState == [categories |-> categories, consentId |-> consentId, be |-> be]

\* generateUUID is called only when an ID is due.
Uuids == IF generateConsentId /\ consentId = {} THEN Ids ELSE {"u1"}

NoLast ==
    [op |-> "none", input |-> NoInput, ret |-> Undefined, wrote |-> Undefined,
     threw |-> FALSE, payload |-> Undefined, seen |-> Undefined, cb |-> "absent",
     promise |-> "none", after |-> "none", cleared |-> FALSE, inner |-> Undefined]

\* The caller invokes a decision operation; r is the operation's result.
Decide(op, input, r) ==
    /\ r.call.promise = "pending" => Len(pendingCalls) < MaxPending
    /\ categories' = r.m.categories
    /\ consentId' = r.m.consentId
    /\ be' = r.m.be
    /\ last' = [op |-> op, input |-> input, ret |-> Undefined, wrote |-> r.wrote,
                threw |-> FALSE, payload |-> r.call.payload, seen |-> r.call.seen,
                cb |-> r.call.cb, promise |-> r.call.promise, after |-> "none",
                cleared |-> FALSE, inner |-> Undefined]
    /\ pendingCalls' = IF r.call.promise = "pending"
                       THEN Append(pendingCalls, op) ELSE pendingCalls
    /\ UNCHANGED <<storageMethod, encryption, fault, generateConsentId, legacyMode>>
    /\ UNCHANGED <<smVars, pageVars, exprVars>>

\* The three decision operations, with onAccept / onReject / onSave behaving
\* as one of callbacks.
AcceptAllWith(callbacks) ==
    \E uuid \in Uuids, cb \in callbacks :
        Decide("acceptAll", NoInput, CM_acceptAll(CMState, Now, uuid, cb))

RejectAllWith(callbacks) ==
    \E uuid \in Uuids, cb \in callbacks :
        Decide("rejectAll", NoInput, CM_rejectAll(CMState, Now, uuid, cb))

SavePreferencesWith(inputs, callbacks) ==
    \E input \in inputs, uuid \in Uuids, cb \in callbacks :
        Decide("savePreferences", input, CM_savePreferences(CMState, input, Now, uuid, cb))

AcceptAll == AcceptAllWith(CallbackBehaviours)
RejectAll == RejectAllWith(CallbackBehaviours)
SavePreferences == SavePreferencesWith(PartialInputs, CallbackBehaviours)
SavePreferencesOnPage == SavePreferencesWith(PageInputs, CallbackBehaviours)

\* Faulty variant: the resumed operation assigns and saves its categories after the
\* await.
CallbackSettles_WritingAfterAwait ==
    \E i \in 1..Len(pendingCalls), outcome \in {"fulfilled", "rejected"} :
        LET m1 == [CMState EXCEPT !.categories =
                      CASE pendingCalls[i] = "acceptAll" -> AllCategories
                        [] pendingCalls[i] = "rejectAll" -> DefaultCategories
                        [] OTHER -> categories]
            s == CM_save(m1, Now, "u1")
        IN  /\ pendingCalls' = SubSeq(pendingCalls, 1, i - 1)
                                 \o SubSeq(pendingCalls, i + 1, Len(pendingCalls))
            /\ last' = IF i = Len(pendingCalls) /\ last.promise = "pending"
                       THEN [last EXCEPT !.cb = outcome, !.promise = awaitResult(outcome)]
                       ELSE last
            /\ categories' = s.m.categories
            /\ consentId' = s.m.consentId
            /\ be' = s.m.be
            /\ UNCHANGED <<storageMethod, encryption, fault, generateConsentId,
                           legacyMode, smVars, pageVars, exprVars>>

\* The promise returned by a callback settles and the operation resumes. The
\* caller of the last operation sees its promise settle.
CallbackSettles ==
    \E i \in 1..Len(pendingCalls), outcome \in {"fulfilled", "rejected"} :
        /\ pendingCalls' = SubSeq(pendingCalls, 1, i - 1)
                             \o SubSeq(pendingCalls, i + 1, Len(pendingCalls))
        /\ last' = IF i = Len(pendingCalls) /\ last.promise = "pending"
                   THEN [last EXCEPT !.cb = outcome, !.promise = awaitResult(outcome)]
                   ELSE last
        /\ UNCHANGED <<saVars, cmVars, smVars, pageVars, exprVars>>

Load ==
    LET r == CM_load(CMState, Now)
    IN  /\ categories' = r.m.categories
        /\ consentId' = r.m.consentId
        /\ be' = r.m.be
        /\ last' = [NoLast EXCEPT !.op = "load", !.ret = r.ret, !.wrote = r.wrote,
                                  !.threw = r.err]
        /\ UNCHANGED <<storageMethod, encryption, fault, generateConsentId, legacyMode,
                       pendingCalls, smVars, pageVars, exprVars>>

Reset ==
    LET r == CM_reset(CMState)
    IN  /\ categories' = r.m.categories
        /\ consentId' = r.m.consentId
        /\ be' = r.m.be
        /\ last' = [NoLast EXCEPT !.op = "reset", !.threw = r.err]
        /\ UNCHANGED <<storageMethod, encryption, fault, generateConsentId, legacyMode,
                       pendingCalls, smVars, pageVars, exprVars>>

\* The backend accesses that throw in a session: none, one kind, or all
\* (storage disabled).
FaultModes == {{}, {"write"}, {"read"}, {"remove"}, {"read", "write", "remove"}}

\* ------------------------------------------- direct use of the adapter
\* Arguments of StorageAdapter.save: ConsentState values.
SaveArgs ==
    {JsonObject({"2.0"}, {TRUE}, {FALSE}, {FALSE}, {FALSE}, {FALSE}, {Now}, {}),
     JsonObject({"2.0"}, {TRUE}, {TRUE}, {FALSE}, {TRUE}, {FALSE}, {Now}, {"u1"}),
     JsonObject({"2.0"}, {TRUE}, {FALSE}, {TRUE}, {FALSE}, {TRUE}, {Now}, {"u2"}),
     JsonObject({"2.0"}, {TRUE}, {FALSE}, {FALSE}, {TRUE}, {TRUE}, {Now}, {}),
     JsonObject({"2.0"}, {TRUE}, {TRUE}, {TRUE}, {TRUE}, {TRUE}, {Earlier}, {OldId})}

\* last.after remembers which of save and clear was called last, last.cleared
\* whether clear was called at all.
AdapterSaveOf(args) ==
    \E x \in args :
        LET r == SA_save(be, x)
        IN  /\ be' = r.be
            /\ last' = [NoLast EXCEPT !.op = "adapter.save", !.wrote = Def(x),
                                      !.threw = r.err, !.after = "save",
                                      !.cleared = last.cleared]
            /\ UNCHANGED <<storageMethod, encryption, fault, cmVars, pendingCalls,
                           smVars, pageVars, exprVars>>

AdapterSave == AdapterSaveOf(SaveArgs)

AdapterClear ==
    LET r == SA_clear(be)
    IN  /\ be' = r.be
        /\ last' = [NoLast EXCEPT !.op = "adapter.clear", !.threw = r.err,
                                  !.after = "clear", !.cleared = TRUE]
        /\ UNCHANGED <<storageMethod, encryption, fault, cmVars, pendingCalls,
                       smVars, pageVars, exprVars>>

AdapterLoad ==
    LET r == SA_load(be)
    IN  /\ last' = [last EXCEPT !.op = "adapter.load", !.ret = r.val, !.threw = r.err]
        /\ UNCHANGED <<saVars, cmVars, pendingCalls, smVars, pageVars, exprVars>>

\* ---------------------------------------------------------------- Init
LegacyRecords ==
    {JsonObject({}, {TRUE}, {}, {}, {TRUE}, {FALSE}, {Earlier}, {}),
     JsonObject({}, {TRUE}, {}, {}, {FALSE}, {TRUE}, {Earlier}, {OldId})}

StoredV2Records ==
    {JsonObject({"2.0"}, {TRUE}, {FALSE}, {TRUE}, {FALSE}, {TRUE}, {Earlier}, {OldId}),
     JsonObject({"2.0"}, {FALSE}, {TRUE}, {FALSE}, {TRUE}, {FALSE}, {Earlier}, {})}

Junk == [fmt |-> "junk", uri |-> FALSE, val |-> Undefined]

\* What an earlier session may have left under the storage key: a legacy or a
\* current record, as plain JSON or encoded, or something unreadable.
EncodedRecords ==
    {JsonObject({}, {TRUE}, {}, {}, {TRUE}, {TRUE}, {Earlier}, {}),
     JsonObject({"2.0"}, {TRUE}, {TRUE}, {TRUE}, {FALSE}, {FALSE}, {Earlier}, {OldId})}

StoredStrings ==
    {JSONstringify(v) : v \in LegacyRecords \cup StoredV2Records}
        \cup {btoa(JSONstringify(v)) : v \in EncodedRecords}
        \cup {Junk}

InitBackend(method, stored) ==
    [ls |-> IF method = "localStorage" THEN stored ELSE {},
     jar |-> IF method = "cookie" /\ stored # {}
             THEN Def(encodeURIComponent(Val(stored))) ELSE {},
     opts |-> [expires |-> DefaultExpires]]

\* No ScriptManager has been constructed and the page holds no tagged element.
NoGate ==
    /\ managedScripts = <<>>
    /\ managedIframes = <<>>
    /\ observer = FALSE
    /\ dom = <<>>
    /\ mutations = <<>>

\* shouldAllow is not called.
NoExpr ==
    /\ askedAttr = <<>>
    /\ result = Undefined

InitManager ==
    /\ generateConsentId \in BOOLEAN
    /\ legacyMode \in BOOLEAN
    /\ categories = DefaultCategories
    /\ consentId = Undefined
    /\ last = NoLast
    /\ pendingCalls = <<>>

Init ==
    /\ storageMethod \in {"localStorage", "cookie"}
    /\ encryption \in BOOLEAN
    /\ \E stored \in Opt(StoredStrings) : be = InitBackend(storageMethod, stored)
    /\ fault = {}
    /\ InitManager
    /\ NoGate
    /\ NoExpr

Next ==
    \/ AcceptAll
    \/ RejectAll
    \/ SavePreferences
    \/ CallbackSettles
    \/ Load
    \/ Reset

Spec == Init /\ [][Next]_vars

\* The adapter alone, on a backend that does not throw.
InitSA ==
    /\ storageMethod \in {"localStorage", "cookie"}
    /\ encryption \in BOOLEAN
    /\ \E stored \in Opt(StoredStrings) : be = InitBackend(storageMethod, stored)
    /\ fault = {}
    /\ generateConsentId = FALSE
    /\ legacyMode = FALSE
    /\ categories = DefaultCategories
    /\ consentId = Undefined
    /\ last = NoLast
    /\ pendingCalls = <<>>
    /\ NoGate
    /\ NoExpr

NextSA ==
    \/ AdapterSave
    \/ AdapterClear
    \/ AdapterLoad

SpecSA == InitSA /\ [][NextSA]_vars

\* The manager and the adapter on a backend whose accesses throw. An earlier
\* session, when the backend worked, may have left a record or something
\* unreadable.
FaultStored ==
    {JsonObject({"2.0"}, {TRUE}, {FALSE}, {TRUE}, {FALSE}, {TRUE}, {Earlier}, {OldId})}

InitFault ==
    /\ storageMethod \in {"localStorage", "cookie"}
    /\ encryption = FALSE
    /\ \E stored \in Opt({JSONstringify(v) : v \in FaultStored} \cup {Junk}) :
           be = InitBackend(storageMethod, stored)
    /\ fault \in FaultModes \ {{}}
    /\ generateConsentId = TRUE
    /\ legacyMode = FALSE
    /\ categories = DefaultCategories
    /\ consentId = Undefined
    /\ last = NoLast
    /\ pendingCalls = <<>>
    /\ NoGate
    /\ NoExpr

AdapterSaveOne == AdapterSaveOf(FaultStored)

NextFault ==
    \/ AcceptAll
    \/ RejectAll
    \/ SavePreferencesOnPage
    \/ CallbackSettles
    \/ Load
    \/ Reset
    \/ AdapterSaveOne
    \/ AdapterClear
    \/ AdapterLoad

SpecFault == InitFault /\ [][NextFault]_vars

\* The adapter alone where an earlier session, configured for either
\* backend, may have left a string under the key in localStorage, in the
\* cookie, or in both; the backend works, throws on one kind of access, or
\* rejects cookies.
MigrateFaults == {{}, {"write"}, {"reject"}, {"remove"}, {"read"}}

CookieStrings == {JSONstringify(v) : v \in FaultStored} \cup {Junk}

InitBackends(local, cookie) ==
    [ls |-> local,
     jar |-> IF cookie = {} THEN {} ELSE Def(encodeURIComponent(Val(cookie))),
     opts |-> [expires |-> DefaultExpires]]

MigrateToStorage ==
    LET r == migrateToStorage(be)
    IN  /\ be' = r.be
        /\ last' = [NoLast EXCEPT !.op = "migrateToStorage", !.threw = r.err]
        /\ UNCHANGED <<storageMethod, encryption, fault, cmVars, pendingCalls,
                       smVars, pageVars, exprVars>>

InitMigrate ==
    /\ storageMethod \in {"localStorage", "cookie"}
    /\ encryption \in BOOLEAN
    /\ \E local \in Opt(StoredStrings), cookie \in Opt(CookieStrings) :
           be = InitBackends(local, cookie)
    /\ fault \in MigrateFaults
    /\ generateConsentId = FALSE
    /\ legacyMode = FALSE
    /\ categories = DefaultCategories
    /\ consentId = Undefined
    /\ last = NoLast
    /\ pendingCalls = <<>>
    /\ NoGate
    /\ NoExpr

NextMigrate ==
    \/ MigrateToStorage
    \/ AdapterSaveOne
    \/ AdapterClear
    \/ AdapterLoad

SpecMigrate == InitMigrate /\ [][NextMigrate]_vars

\* The page calls shouldAllow on a string, under some consent.
AttrStrings == UNION {[1..n -> Characters] : n \in 0..MaxAttrLen}

ConsentsTried ==
    {[DefaultCategories EXCEPT !.analytics = a, !.marketing = m] : a, m \in BOOLEAN}

ShouldAllow ==
    /\ result = Undefined
    /\ result' = Def(shouldAllow(askedAttr, categories))
    /\ UNCHANGED <<saVars, cmVars, obsVars, smVars, pageVars, askedAttr>>

InitExpr ==
    /\ storageMethod = "localStorage"
    /\ encryption = FALSE
    /\ be = InitBackend(storageMethod, {})
    /\ fault = {}
    /\ generateConsentId = FALSE
    /\ legacyMode = FALSE
    /\ categories \in ConsentsTried
    /\ consentId = Undefined
    /\ last = NoLast
    /\ pendingCalls = <<>>
    /\ NoGate
    /\ askedAttr \in AttrStrings
    /\ result = Undefined

NextExpr == ShouldAllow

SpecExpr == InitExpr /\ [][NextExpr]_vars

\* ------------------------------------------- the page and ScriptManager
GateState ==
    [dom |-> dom, managedScripts |-> managedScripts, managedIframes |-> managedIframes]

SetGate(g) ==
    /\ dom' = g.dom
    /\ managedScripts' = g.managedScripts
    /\ managedIframes' = g.managedIframes

\* The page inserts a node whose subtree holds the tagged elements of
\* subtree; an installed observer is sent a record of it.
InsertSubtree ==
    \E subtree \in SUBSET {e \in Elements : dom[e].where = "absent"} \ {{}} :
        /\ dom' = [e \in Elements |->
                      IF e \in subtree THEN [dom[e] EXCEPT !.where = "document"]
                      ELSE dom[e]]
        /\ mutations' = IF observer THEN Append(mutations, subtree) ELSE mutations
        /\ UNCHANGED <<saVars, cmVars, obsVars, smVars, exprVars>>

ScanScripts ==
    /\ SetGate(scanScripts(GateState))
    /\ UNCHANGED <<saVars, cmVars, obsVars, observer, mutations, exprVars>>

ScanIframes ==
    /\ SetGate(scanIframes(GateState))
    /\ UNCHANGED <<saVars, cmVars, obsVars, observer, mutations, exprVars>>

InitObserver ==
    /\ ~observer
    /\ observer' = TRUE
    /\ UNCHANGED <<saVars, cmVars, obsVars, managedScripts, managedIframes, pageVars,
                   exprVars>>

\* The records of the replacements a call put in the document (d before the
\* call, d1 after it): replaceChild adds a node under document.body.
ReplacementRecords(d, d1) ==
    LET added == SelectSeq(DocOrder, LAMBDA e : d1[e].inserted > d[e].inserted)
    IN  [i \in 1..Len(added) |-> {ReplacementOf(added[i])}]

\* The MutationObserver callback, run with the records queued so far; the
\* replacements it inserts are reported to the next run.
ObserverCallback ==
    /\ observer
    /\ mutations # <<>>
    /\ SetGate(observerCallback(GateState, mutations, 1, categories))
    /\ mutations' = ReplacementRecords(dom, dom')
    /\ UNCHANGED <<saVars, cmVars, obsVars, observer, exprVars>>

Evaluate ==
    /\ SetGate(evaluate(GateState, categories))
    /\ mutations' = IF observer THEN mutations \o ReplacementRecords(dom, dom')
                    ELSE mutations
    /\ UNCHANGED <<saVars, cmVars, obsVars, observer, exprVars>>

\* destroy(): disconnect() drops the records not yet delivered.
Destroy ==
    /\ observer
    /\ observer' = FALSE
    /\ mutations' = <<>>
    /\ UNCHANGED <<saVars, cmVars, obsVars, managedScripts, managedIframes, dom,
                   exprVars>>

\* Consent changes on the page: decisions about the two categories its
\* elements name, with no callback registered.
ConsentAccepted == AcceptAllWith({"absent"})
ConsentRejected == RejectAllWith({"absent"})
ConsentSaved == SavePreferencesWith(PageInputs, {"absent"})

\* The pages tried: the tagged elements each will insert.
Pages == {{"s1", "f1"}, {"s2", "f1"}, {"s1", "s2"}}

\* A ConsentManager and a ScriptManager constructed on its isAllowed, on a
\* page whose tagged elements are still to be inserted.
InitGate ==
    /\ storageMethod = "localStorage"
    /\ encryption = FALSE
    /\ be = InitBackend(storageMethod, {})
    /\ fault = {}
    /\ generateConsentId = FALSE
    /\ legacyMode = FALSE
    /\ categories = DefaultCategories
    /\ consentId = Undefined
    /\ last = NoLast
    /\ pendingCalls = <<>>
    /\ managedScripts = <<>>
    /\ managedIframes = <<>>
    /\ observer = FALSE
    /\ \E page \in Pages :
           dom = [e \in Elements |-> NodeOf(e, IF e \in page THEN "absent" ELSE "none")]
    /\ mutations = <<>>
    /\ NoExpr

NextGate ==
    \/ ConsentAccepted
    \/ ConsentRejected
    \/ ConsentSaved
    \/ InsertSubtree
    \/ ScanScripts
    \/ ScanIframes
    \/ InitObserver
    \/ ObserverCallback
    \/ Evaluate
    \/ Destroy

SpecGate == InitGate /\ [][NextGate]_vars

\* The same on a page of a script and two iframes, one written with src and
\* one with data-src alone.
InitFrames ==
    /\ storageMethod = "localStorage"
    /\ encryption = FALSE
    /\ be = InitBackend(storageMethod, {})
    /\ fault = {}
    /\ generateConsentId = FALSE
    /\ legacyMode = FALSE
    /\ categories = DefaultCategories
    /\ consentId = Undefined
    /\ last = NoLast
    /\ pendingCalls = <<>>
    /\ managedScripts = <<>>
    /\ managedIframes = <<>>
    /\ observer = FALSE
    /\ dom = [e \in Elements |->
                 NodeOf(e, IF e \in {"s1", "f1", "f2"} THEN "absent" ELSE "none")]
    /\ mutations = <<>>
    /\ NoExpr

SpecFrames == InitFrames /\ [][NextGate]_vars

\* The ConsentManager's decisions, with callbacks, on a page whose script and
\* iframe a ScriptManager scans and evaluates.
InitOrder ==
    /\ storageMethod = "localStorage"
    /\ encryption = FALSE
    /\ be = InitBackend(storageMethod, {})
    /\ fault = {}
    /\ generateConsentId = FALSE
    /\ legacyMode = FALSE
    /\ categories = DefaultCategories
    /\ consentId = Undefined
    /\ last = NoLast
    /\ pendingCalls = <<>>
    /\ managedScripts = <<>>
    /\ managedIframes = <<>>
    /\ observer = FALSE
    /\ dom = [e \in Elements |->
                 NodeOf(e, IF e \in {"s1", "f1"} THEN "absent" ELSE "none")]
    /\ mutations = <<>>
    /\ NoExpr

NextOrder ==
    \/ AcceptAll
    \/ RejectAll
    \/ SavePreferencesOnPage
    \/ CallbackSettles
    \/ InsertSubtree
    \/ ScanScripts
    \/ ScanIframes
    \/ Evaluate

SpecOrder == InitOrder /\ [][NextOrder]_vars

\* The page asks the manager about category names and evaluates expressions of
\* one requirement or one exclusion with the manager as predicate.
TokensAsked == {"analytics", "marketing", "ads", "Analytics", "constructor", "toString"}

IsAllowedCalled ==
    \E token \in TokensAsked :
        /\ askedAttr' = Str(token)
        /\ result' = Def(isAllowed(token))
        /\ last' = [NoLast EXCEPT !.op = "isAllowed"]
        /\ UNCHANGED <<saVars, cmVars, pendingCalls, smVars, pageVars>>

ShouldAllowCalled ==
    \E token \in TokensAsked, negated \in BOOLEAN :
        /\ askedAttr' = IF negated THEN <<"!", token>> ELSE Str(token)
        /\ result' = Def(shouldAllow(askedAttr', categories))
        /\ last' = [NoLast EXCEPT !.op = "shouldAllow"]
        /\ UNCHANGED <<saVars, cmVars, pendingCalls, smVars, pageVars>>

InitKeys ==
    /\ storageMethod = "localStorage"
    /\ encryption = FALSE
    /\ be = InitBackend(storageMethod, {})
    /\ fault = {}
    /\ generateConsentId = FALSE
    /\ legacyMode = FALSE
    /\ categories = DefaultCategories
    /\ consentId = Undefined
    /\ last = NoLast
    /\ pendingCalls = <<>>
    /\ NoGate
    /\ NoExpr

NextKeys ==
    \/ ConsentAccepted
    \/ ConsentRejected
    \/ ConsentSaved
    \/ IsAllowedCalled
    \/ ShouldAllowCalled

SpecKeys == InitKeys /\ [][NextKeys]_vars

\* The caller sets single optional categories and asks for the status.
StatusInputs ==
    {[NoInput EXCEPT ![name] = {flag}] : name \in OptionalNames, flag \in BOOLEAN}

PreferenceToggled == SavePreferencesWith(StatusInputs, {"absent"})

GetStatusCalled ==
    /\ last' = [NoLast EXCEPT !.op = "getStatus", !.ret = Def(getStatus(categories))]
    /\ UNCHANGED <<saVars, cmVars, pendingCalls, smVars, pageVars, exprVars>>

InitStatus ==
    /\ storageMethod = "localStorage"
    /\ encryption = FALSE
    /\ be = InitBackend(storageMethod, {})
    /\ fault = {}
    /\ InitManager
    /\ NoGate
    /\ NoExpr

NextStatus ==
    \/ ConsentAccepted
    \/ ConsentRejected
    \/ PreferenceToggled
    \/ GetStatusCalled

SpecStatus == InitStatus /\ [][NextStatus]_vars

\* The manager over storage holding what the migration guide gives as the v1
\* shape (tagged version "1.0"), or a JSON value that is no consent record.
TaggedV1Records ==
    {JsonObject({"1.0"}, {TRUE}, {}, {}, {TRUE}, {FALSE}, {Earlier}, {}),
     JsonObject({"1.0"}, {TRUE}, {}, {}, {FALSE}, {TRUE}, {Earlier}, {})}

OtherJsonValues ==
    {JsonScalar("number", "7"), JsonScalar("number", "0"), JsonScalar("string", "yes"),
     JsonScalar("boolean", "true"), JsonScalar("boolean", "false"), EmptyObject}

InitLoad ==
    /\ storageMethod \in {"localStorage", "cookie"}
    /\ encryption \in BOOLEAN
    /\ \E v \in TaggedV1Records \cup OtherJsonValues \cup LegacyRecords :
           be = InitBackend(storageMethod, Def(JSONstringify(v)))
    /\ fault = {}
    /\ InitManager
    /\ NoGate
    /\ NoExpr

NextLoad ==
    \/ Load
    \/ ConsentAccepted
    \/ ConsentRejected
    \/ Reset

SpecLoad == InitLoad /\ [][NextLoad]_vars

\* A decision operation by name.
CallDecision(m, op, input, uuid, cb) ==
    CASE op = "acceptAll" -> CM_acceptAll(m, Now, uuid, cb)
      [] op = "rejectAll" -> CM_rejectAll(m, Now, uuid, cb)
      [] op = "savePreferences" -> CM_savePreferences(m, input, Now, uuid, cb)

DecisionCalls ==
    {[op |-> "acceptAll", input |-> NoInput], [op |-> "rejectAll", input |-> NoInput]}
        \cup {[op |-> "savePreferences", input |-> i] : i \in PageInputs}

\* A decision operation whose callback invokes a second one and returns: the
\* callback runs inside executeCallback, after the outer operation assigned
\* and saved and with the argument computed before its body runs; the outer
\* operation does nothing after it. last describes the outer operation,
\* last.inner the one its callback invoked.
DecideFromCallback ==
    \E outer \in DecisionCalls, nested \in DecisionCalls, uuid \in Uuids,
       cb \in {"returns", "promise"} :
        LET r1 == CallDecision(CMState, outer.op, outer.input, uuid, "returns")
            r2 == CallDecision(r1.m, nested.op, nested.input, uuid, cb)
        IN  /\ r2.call.promise = "pending" => Len(pendingCalls) < MaxPending
            /\ categories' = r2.m.categories
            /\ consentId' = r2.m.consentId
            /\ be' = r2.m.be
            /\ last' = [NoLast EXCEPT
                          !.op = outer.op, !.input = outer.input, !.wrote = r1.wrote,
                          !.payload = r1.call.payload, !.seen = r1.call.seen,
                          !.cb = r1.call.cb, !.promise = r1.call.promise,
                          !.inner = Def([op |-> nested.op, input |-> nested.input,
                                         wrote |-> r2.wrote,
                                         payload |-> r2.call.payload])]
            /\ pendingCalls' = IF r2.call.promise = "pending"
                               THEN Append(pendingCalls, nested.op) ELSE pendingCalls
            /\ UNCHANGED <<storageMethod, encryption, fault, generateConsentId, legacyMode>>
            /\ UNCHANGED <<smVars, pageVars, exprVars>>

NextOverlap ==
    \/ AcceptAll
    \/ RejectAll
    \/ SavePreferencesOnPage
    \/ CallbackSettles
    \/ DecideFromCallback

SpecOverlap == InitStatus /\ [][NextOverlap]_vars

\* ================================================================ claims
\* The JSON value a stored string denotes, read off the string itself.
Denotes(str) == IF str.fmt \in {"json", "b64"} THEN str.val ELSE Undefined
\* The string under the storage key in the configured backend.
StoredString(b) == IF storageMethod = "cookie" THEN b.jar ELSE b.ls
IsDecision(op) == op \in {"acceptAll", "rejectAll", "savePreferences"}
FiveValues(v) ==
    [necessary |-> v.necessary, functional |-> v.functional,
     preferences |-> v.preferences, analytics |-> v.analytics,
     marketing |-> v.marketing]
AsOptions(c) ==
    [necessary |-> {c.necessary}, functional |-> {c.functional},
     preferences |-> {c.preferences}, analytics |-> {c.analytics},
     marketing |-> {c.marketing}]

\* C3: in every reachable state the in-memory necessary flag is true, and the
\* record the manager passed to storage in the last operation (a save or a
\* migration) has necessary = true, whatever was stored or supplied.
C3_NecessaryAlwaysTrue ==
    /\ getCategories.necessary = TRUE
    /\ last.wrote # {} => Val(last.wrote).necessary = {TRUE}

\* C3 witness: savePreferences was given necessary:false and wrote a record.
C3_Witness ==
    /\ last.op = "savePreferences"
    /\ last.input.necessary = {FALSE}
    /\ last.wrote # {}

\* C4: once a decision operation has completed, getCategories() is all-true
\* after acceptAll, defaults after rejectAll, and after savePreferences(p) has
\* necessary true and every supplied key at its supplied value, and the record
\* in storage carries the same five values; a savePreferences step leaves
\* every omitted key as it was.
C4_StateAfterDecision ==
    (IsDecision(last.op) /\ last.promise = "resolved") =>
        /\ last.op = "acceptAll" => getCategories = AllCategories
        /\ last.op = "rejectAll" => getCategories = DefaultCategories
        /\ last.op = "savePreferences" =>
              /\ getCategories.necessary
              /\ \A k \in OptionalNames :
                    last.input[k] # {} => getCategories[k] = Val(last.input[k])
        /\ StoredString(be) # {}
        /\ Denotes(Val(StoredString(be))) # {}
        /\ FiveValues(Val(Denotes(Val(StoredString(be))))) = AsOptions(getCategories)

C4_OmittedKept ==
    (last'.op = "savePreferences" /\ last' # last) =>
        \A k \in OptionalNames : last'.input[k] = {} => categories'[k] = categories[k]

C4_DecisionResult == [](C4_StateAfterDecision) /\ [][C4_OmittedKept]_vars

\* C4 witness: savePreferences({functional, analytics: true, marketing: false})
\* completed after its callback's promise was fulfilled, in legacy mode, with
\* the omitted preferences flag still true.
C4_Witness ==
    /\ last.op = "savePreferences"
    /\ last.input = Partial({}, {TRUE}, {}, {TRUE}, {FALSE})
    /\ last.cb = "fulfilled"
    /\ last.promise = "resolved"
    /\ legacyMode
    /\ categories.preferences

HoldsLegacy(b) ==
    /\ StoredString(b) # {}
    /\ Denotes(Val(StoredString(b))) # {}
    /\ Val(Denotes(Val(StoredString(b)))).version = {}

C8_StepMigrates ==
    (last'.op = "load" /\ last' # last /\ HoldsLegacy(be)) =>
        LET old == Val(Denotes(Val(StoredString(be))))
        IN  /\ last'.ret # {}
            /\ Val(last'.ret).version = {"2.0"}
            /\ Val(last'.ret).necessary = {TRUE}
            /\ Val(last'.ret).functional = {FALSE}
            /\ Val(last'.ret).preferences = {FALSE}
            /\ Val(last'.ret).analytics = old.analytics
            /\ Val(last'.ret).marketing = old.marketing
            /\ Val(last'.ret).timestamp = old.timestamp
            /\ StoredString(be') # {}
            /\ Denotes(Val(StoredString(be'))) = last'.ret

C8_LegacyMigration == [][C8_StepMigrates]_vars

\* C8 witness: load() returned a migrated record that kept the earlier
\* timestamp, and wrote it.
C8_Witness ==
    /\ last.op = "load"
    /\ last.ret # {}
    /\ Val(last.ret).timestamp = {Earlier}
    /\ Val(last.ret).analytics = {TRUE}
    /\ last.wrote = last.ret
    /\ encryption

\* C10: when the callback of the last decision operation threw or its promise
\* was rejected, the operation's promise is rejected.
C10_CallbackFailurePropagates ==
    (IsDecision(last.op) /\ last.cb \in {"throws", "rejected"}) => last.promise = "rejected"

\* C10 witness: a callback's promise was rejected after the operation suspended.
C10_Witness ==
    /\ last.op = "rejectAll"
    /\ last.cb = "rejected"
    /\ last.promise = "rejected"

\* C5: load() after a sequence of save and clear calls returns the argument of
\* the last save when the last of them was a save, and null when it was a
\* clear, on both backends, encoded or not; no call changes the adapter's
\* cookie options.
C5_SingleRecordRegister ==
    /\ (last.op = "adapter.load" /\ last.after = "save") => last.ret = last.wrote
    /\ (last.op = "adapter.load" /\ last.after = "clear") => last.ret = Undefined
    /\ be.opts = [expires |-> DefaultExpires]

\* C5 witness: on the cookie backend with encoding, a record saved after a
\* clear() was loaded back.
C5_Witness ==
    /\ storageMethod = "cookie"
    /\ encryption
    /\ last.op = "adapter.load"
    /\ last.after = "save"
    /\ last.cleared
    /\ last.ret # {}
    /\ last.ret = last.wrote

\* C9: in a step taken while the backend throws on the access the step needs,
\* StorageAdapter.save and clear return normally and leave storage as it was,
\* and load returns null; acceptAll, rejectAll, savePreferences and reset
\* raise nothing, their promise is not rejected unless the callback failed,
\* and getCategories and isAllowed show the new decision.
C9_StepAbsorbsFailure ==
    last' # last =>
        /\ ~last'.threw
        /\ (last'.op = "adapter.save" /\ "write" \in fault) => be' = be
        /\ (last'.op = "adapter.clear" /\ "remove" \in fault) => be' = be
        /\ (last'.op = "adapter.load" /\ "read" \in fault) => last'.ret = Undefined
        /\ (IsDecision(last'.op) /\ last'.cb \notin {"fulfilled", "rejected"}
               /\ "write" \in fault) =>
              /\ be' = be
              /\ last'.cb \in {"absent", "returns"} => last'.promise = "resolved"
              /\ last'.cb = "promise" => last'.promise = "pending"
              /\ last'.op = "acceptAll" => getCategories' = AllCategories
              /\ last'.op = "rejectAll" => getCategories' = DefaultCategories
              /\ last'.op = "savePreferences" =>
                    \A k \in OptionalNames :
                        getCategories'[k] = Nullish(last'.input[k], categories[k])
              /\ \A k \in CategoryNames : isAllowed(k)' = getCategories'[k]
        /\ (last'.op = "reset" /\ "remove" \in fault) =>
              /\ be' = be
              /\ getCategories' = DefaultCategories
              /\ getConsentId' = Undefined

C9_BackendFailureAbsorbed == [][C9_StepAbsorbsFailure]_vars

\* C9 witness: acceptAll() completed while writes throw; memory is all-true
\* and storage still holds the earlier session's record.
C9_Witness ==
    /\ "write" \in fault
    /\ last.op = "acceptAll"
    /\ last.promise = "resolved"
    /\ categories = AllCategories
    /\ StoredString(be) # {}
    /\ Val(Denotes(Val(StoredString(be)))).functional = {FALSE}

\* The tokens of an expression: its maximal runs of non-whitespace characters.
Tokens(str) ==
    {SubSeq(str, i, j) : <<i, j>> \in
        {p \in (1..Len(str)) \X (1..Len(str)) :
            /\ p[1] <= p[2]
            /\ \A k \in p[1]..p[2] : str[k] \notin Whitespace
            /\ p[1] = 1 \/ str[p[1] - 1] \in Whitespace
            /\ p[2] = Len(str) \/ str[p[2] + 1] \in Whitespace}}
Prefixed(tok) == tok[1] = "!"
NamesAllowed(name) == \E k \in CategoryNames : name = Str(k) /\ categories[k]

\* C2: for an expression with at least one token, shouldAllow returns true
\* exactly when no '!'-prefixed token names an allowed category and either no
\* token is unprefixed or some unprefixed token names an allowed category.
C2_ShouldAllowFormula ==
    (result # Undefined /\ Tokens(askedAttr) # {}) =>
        Val(result) =
            (/\ ~\E tok \in Tokens(askedAttr) :
                    Prefixed(tok) /\ NamesAllowed(SubSeq(tok, 2, Len(tok)))
             /\ \/ ~\E tok \in Tokens(askedAttr) : ~Prefixed(tok)
                \/ \E tok \in Tokens(askedAttr) : ~Prefixed(tok) /\ NamesAllowed(tok))

\* C2 witness: "\tanalytics !marketing" was allowed with analytics granted and
\* marketing denied.
C2_Witness ==
    /\ askedAttr = <<"\t", "analytics", " ", "!", "marketing">>
    /\ categories.analytics /\ ~categories.marketing
    /\ result = Def(TRUE)

\* A step activates e: a replacement script is put in the document in its
\* place, or its src attribute, which it lacked, is set.
Activates(e) ==
    \/ dom'[e].inserted > dom[e].inserted
    \/ Page[e].kind = "iframe" /\ dom'[e].src /\ ~dom[e].src

\* C1: whatever the scans, insertions, observer callbacks, evaluate calls and
\* consent changes so far, a step activates an element only if shouldAllow of
\* its data-cookie-category is true under the consent of that step.
C1_ActivationOnlyWhenAllowed ==
    [][\A e \in Elements :
          Activates(e) => /\ categories' = categories
                          /\ shouldAllow(Page[e].category, categories)]_vars

\* C1 witness: after consent was given, the blocked script was replaced and the
\* blocked iframe got its src back.
C1_Witness ==
    /\ categories.analytics
    /\ dom["s1"].inserted = 1
    /\ dom["f1"].dataSrc
    /\ dom["f1"].src
    /\ ~dom["f1"].hidden

\* A step in which a decision operation runs up to the return of its callback.
InvokesCallback ==
    /\ last' # last
    /\ IsDecision(last'.op)
    /\ last'.cb \in {"returns", "throws", "promise"}

C6_StepOrder ==
    InvokesCallback =>
        /\ Val(last'.seen).categories = categories'
        /\ FiveValues(Val(last'.wrote)) = AsOptions(categories')
        /\ Val(last'.seen).stored = last'.wrote
        /\ GateState' = GateState
        /\ last'.cb = "promise" => last'.promise = "pending"

C6_ResolvedAfterCallback ==
    (IsDecision(last.op) /\ last.promise = "resolved") =>
        last.cb \in {"absent", "returns", "fulfilled"}

C11_EmptyExpressionAllows ==
    (result # Undefined /\ askedAttr = <<>>) => result = Def(TRUE)

\* The name a one-token expression asks about, with or without '!'.
AskedName == IF askedAttr[1] = "!" THEN askedAttr[2] ELSE askedAttr[1]

\* C12 as stated: isAllowed of a name that is none of the five categories is
\* false; with the manager as predicate a requirement on such a name is not
\* satisfied and an exclusion on it does not deny.
C12_UnknownNeverAllowed ==
    (result # Undefined /\ AskedName \notin CategoryNames) =>
        /\ last.op = "isAllowed" => result = Def(FALSE)
        /\ (last.op = "shouldAllow" /\ askedAttr[1] # "!") => result = Def(FALSE)
        /\ (last.op = "shouldAllow" /\ askedAttr[1] = "!") => result = Def(TRUE)

\* A step that is a call of evaluate().
EvaluateStep ==
    /\ GateState' = evaluate(GateState, categories)
    /\ categories' = categories

\* C13: after a step that is a call of evaluate(), a second call under the
\* same consent changes no flag of a tracked script or iframe and nothing in
\* the document.
C13_EvaluateIdempotent ==
    [][EvaluateStep => evaluate(GateState', categories') = GateState']_vars

\* C13 witness: evaluate() has blocked a script it had executed before (only
\* evaluate() does that) and a second call would change nothing.
C13_Witness ==
    /\ \E i \in 1..Len(managedScripts) :
           managedScripts[i].executed /\ managedScripts[i].blocked
    /\ \E i \in 1..Len(managedIframes) : managedIframes[i].blocked
    /\ evaluate(GateState, categories) = GateState

\* The iframe e is in the managed list frames.
Tracked(frames, e) == \E i \in 1..Len(frames) : frames[i].element = e

\* C14 as stated: no step, a scanIframes() call included, removes a tracked
\* iframe from the managed list.
C14_IframesAccumulate ==
    [][\A e \in Elements :
          Tracked(managedIframes, e) => Tracked(managedIframes', e)]_vars

\* A step that is a run of the observer's callback, and the tagged elements
\* of the subtrees it is told about.
ObserverCallbackStep ==
    /\ observer /\ observer'
    /\ mutations # <<>>
    /\ mutations' = ReplacementRecords(dom, dom')
    /\ GateState' = observerCallback(GateState, mutations, 1, categories)
Discovered == Elements \cap UNION {mutations[i] : i \in 1..Len(mutations)}

\* C15: in a step that is a run of the observer's callback, every script of
\* the inserted subtrees and every iframe of them without the processed marker
\* is appended to the managed list and is, at the end of the step, blocked
\* when shouldAllow of its expression is false and activated when it is true;
\* no entry the callback appended is left neither blocked nor executed.
C15_StepEvaluatesDiscovered ==
    ObserverCallbackStep =>
        /\ \A e \in Discovered :
              /\ Page[e].kind = "script" =>
                    \E i \in (Len(managedScripts) + 1)..Len(managedScripts') :
                        /\ managedScripts'[i].element.of = e
                        /\ managedScripts'[i].executed
                               = shouldAllow(Page[e].category, categories)
                        /\ managedScripts'[i].blocked
                               = ~shouldAllow(Page[e].category, categories)
              /\ (Page[e].kind = "iframe" /\ ~dom[e].processed) =>
                    \E i \in (Len(managedIframes) + 1)..Len(managedIframes') :
                        /\ managedIframes'[i].element = e
                        /\ managedIframes'[i].blocked
                               = ~shouldAllow(Page[e].category, categories)
                        /\ dom'[e].hidden = managedIframes'[i].blocked
                        /\ dom'[e].src = ~managedIframes'[i].blocked
        /\ \A i \in (Len(managedScripts) + 1)..Len(managedScripts') :
              managedScripts'[i].blocked \/ managedScripts'[i].executed

C15_DiscoveredEvaluatedAtOnce == [][C15_StepEvaluatesDiscovered]_vars

\* C15 witness: the observer's callback registered a script a scan had
\* already registered (only the callback appends to the list) and blocked it
\* together with the iframe inserted with it.
C15_Witness ==
    /\ observer
    /\ mutations = <<>>
    /\ Len(managedScripts) = 2
    /\ managedScripts[1].element.of = managedScripts[2].element.of
    /\ managedScripts[2].blocked
    /\ Len(managedIframes) = 1
    /\ managedIframes[1].blocked
    /\ dom["f1"].hidden

\* C16: load() returns the JSON value the stored string denotes, whether the
\* string is plain JSON or encoded and whether the adapter encodes or not.
C16_DecodeByContent ==
    (last.op = "adapter.load" /\ StoredString(be) # {}) =>
        last.ret = Denotes(Val(StoredString(be)))

\* C16 witness: an adapter with encoding enabled loaded the plain JSON record
\* an earlier session left.
C16_Witness ==
    /\ encryption
    /\ last.op = "adapter.load"
    /\ last.after = "none"
    /\ StoredString(be) # {}
    /\ Val(StoredString(be)).fmt = "json"
    /\ last.ret # {}

\* C17 as stated: in legacy mode the callback's argument has exactly the
\* fields necessary, analytics and marketing, analytics being the OR of the
\* current functional, preferences and analytics flags.
C17_LegacyPayloadThreeFields ==
    (IsDecision(last.op) /\ legacyMode /\ last.payload # {}) =>
        /\ DOMAIN Val(last.payload) = {"necessary", "analytics", "marketing"}
        /\ Val(last.payload).analytics =
              (categories.functional \/ categories.preferences \/ categories.analytics)
        /\ Val(last.payload).marketing = categories.marketing

\* C18 as stated: with ID generation disabled getConsentId() is null in every
\* reachable state and no record the manager wrote carries a consentId.
C18_NoIdWhenDisabled ==
    ~generateConsentId =>
        /\ getConsentId = Undefined
        /\ last.wrote # {} => Val(last.wrote).consentId = {}

\* Storage holds nothing, or a string that denotes no JSON value.
NoDecodableRecord(b) ==
    \/ StoredString(b) = {}
    \/ Denotes(Val(StoredString(b))) = {}

\* C19: a load() step from storage without a decodable record returns null,
\* leaves the categories and the consent ID as they were and writes nothing.
C19_StepLoadMiss ==
    (last'.op = "load" /\ NoDecodableRecord(be)) =>
        /\ last'.ret = Undefined
        /\ last'.wrote = Undefined
        /\ categories' = categories
        /\ consentId' = consentId
        /\ be' = be

C19_LoadMissIsNoOp == [][C19_StepLoadMiss]_vars

\* C19 witness: load() returned null from empty storage while memory holds an
\* accepted decision and its ID (the writes of that decision threw).
C19_Witness ==
    /\ last.op = "load"
    /\ last.ret = Undefined
    /\ StoredString(be) = {}
    /\ categories = AllCategories
    /\ consentId # {}

\* C20: after reset() storage holds no record and a load() would return null,
\* the categories are the defaults, the consent ID is null, and the step
\* invoked no callback and left no operation awaiting one.
C20_AfterReset ==
    last.op = "reset" =>
        /\ StoredString(be) = {}
        /\ CM_load(CMState, Now).ret = Undefined
        /\ getCategories = DefaultCategories
        /\ getConsentId = Undefined
        /\ last.payload = Undefined
        /\ last.cb = "absent"

C20_ResetClears ==
    /\ [](C20_AfterReset)
    /\ [][last'.op = "reset" => Len(pendingCalls') <= Len(pendingCalls)]_vars

\* C20 witness: reset() ran on the cookie backend after a decision that
\* generated an ID and whose callback is still pending.
C20_Witness ==
    /\ last.op = "reset"
    /\ storageMethod = "cookie"
    /\ generateConsentId
    /\ pendingCalls # <<>>

\* C21: getStatus() returns 'all' when the four optional categories are all
\* true, 'essential' when all four are false and 'partial' otherwise, and
\* returns the same for either value of the necessary flag.
OptionalOn(c) == {name \in OptionalNames : c[name]}

C21_StatusOfOptional ==
    last.op = "getStatus" =>
        /\ last.ret = Def(CASE OptionalOn(categories) = OptionalNames -> "all"
                            [] OptionalOn(categories) = {} -> "essential"
                            [] OTHER -> "partial")
        /\ \A nec \in BOOLEAN :
               Def(getStatus([categories EXCEPT !.necessary = nec])) = last.ret

\* C21 witness: getStatus() was asked with analytics alone allowed.
C21_Witness ==
    /\ last.op = "getStatus"
    /\ OptionalOn(categories) = {"analytics"}
    /\ last.ret = Def("partial")

\* C22: a migrateToStorage() step of a cookie-configured adapter on a working
\* backend, with no cookie under the key and a localStorage string that
\* denotes a record, leaves load() returning that record and localStorage
\* without the key; a step with a cookie under the key, or of an adapter
\* configured for localStorage, changes neither backend.
C22_StepMigrates ==
    last'.op = "migrateToStorage" =>
        /\ (storageMethod = "cookie" /\ fault = {} /\ be.jar = {}
              /\ be.ls # {} /\ Denotes(Val(be.ls)) # {}) =>
               /\ SA_load(be').val = Denotes(Val(be.ls))
               /\ be'.ls = {}
        /\ (be.jar # {} \/ storageMethod = "localStorage") => be' = be

C22_MigrateToStorage == [][C22_StepMigrates]_vars

\* C22 witness: a Base64 record left in localStorage was moved to the cookie
\* of an adapter that does not encode.
C22_Witness ==
    /\ last.op = "migrateToStorage"
    /\ storageMethod = "cookie"
    /\ ~encryption
    /\ fault = {}
    /\ be.ls = {}
    /\ be.jar # {}
    /\ Denotes(Val(be.jar)) \in Opt(EncodedRecords)

\* C29: after a migrateToStorage() step the record that localStorage held
\* before it is still held by localStorage or by the cookie, whether the
\* cookie write succeeded, threw or was rejected.
C29_RecordNeverLost ==
    [][(last'.op = "migrateToStorage" /\ be.ls # {} /\ Denotes(Val(be.ls)) # {}) =>
          \/ be'.ls # {} /\ Denotes(Val(be'.ls)) = Denotes(Val(be.ls))
          \/ be'.jar # {} /\ Denotes(Val(be'.jar)) = Denotes(Val(be.ls))]_vars

\* C23: a load() step from storage holding a v1-shaped record tagged version
\* "1.0" leaves in storage a record of version "2.0" with the analytics and
\* marketing of the stored one and functional and preferences false.
C23_TaggedV1Migrated ==
    [][(last'.op = "load" /\ StoredString(be) # {}
          /\ Denotes(Val(StoredString(be))) \in Opt(TaggedV1Records) \ {{}}) =>
          LET old == Val(Denotes(Val(StoredString(be))))
              new == Denotes(Val(StoredString(be')))
          IN  /\ StoredString(be') # {}
              /\ new # {}
              /\ Val(new).version = Def("2.0")
              /\ Val(new).analytics = old.analytics
              /\ Val(new).marketing = old.marketing
              /\ Val(new).functional = Def(FALSE)
              /\ Val(new).preferences = Def(FALSE)]_vars

\* A consent record that carries no version: an object with one of the
\* category fields.
IsVersionlessRecord(v) ==
    /\ v.kind = "object"
    /\ v.version = {}
    /\ \E name \in CategoryNames : v[name] # {}

\* C30: a load() step from storage holding a decodable value that is no
\* version-less consent record (a number, a string, true, an empty object)
\* leaves storage unchanged and returns no record of version "2.0".
C30_OnlyLegacyRecordsMigrated ==
    [][(last'.op = "load" /\ StoredString(be) # {}
          /\ Denotes(Val(StoredString(be))) # {}
          /\ ~IsVersionlessRecord(Val(Denotes(Val(StoredString(be)))))) =>
          /\ be' = be
          /\ last'.wrote = Undefined
          /\ ~(last'.ret # {} /\ Val(last'.ret).version = Def("2.0"))]_vars

\* The categories a decision operation produces from the categories c.
Produced(op, input, c) ==
    CASE op = "acceptAll" -> AllCategories
      [] op = "rejectAll" -> DefaultCategories
      [] op = "savePreferences" ->
            [name \in CategoryNames |->
                IF name = "necessary" THEN TRUE
                ELSE IF input[name] = {} THEN c[name] ELSE Val(input[name])]

\* Storage holds a record of the categories c.
Persisted(b, c) ==
    /\ StoredString(b) # {}
    /\ Denotes(Val(StoredString(b))) # {}
    /\ FiveValues(Val(Denotes(Val(StoredString(b))))) = AsOptions(c)

\* The callback's argument for the categories c.
PayloadOf(c) == getCallbackCategories([categories |-> c])

\* C24: a decision invoked while another awaits its callback leaves the
\* categories it produces in memory and in storage and hands them to its own
\* callback; a decision invoked from inside another's callback does too,
\* while the outer callback was given what the outer operation produced; and
\* an operation resuming after its callback changes neither.
C24_StepOverlap ==
    /\ (IsDecision(last'.op) /\ last'.inner = {} /\ pendingCalls # <<>>
          /\ Len(pendingCalls') >= Len(pendingCalls)) =>
           /\ categories' = Produced(last'.op, last'.input, categories)
           /\ Persisted(be', categories')
           /\ last'.payload # {} => Val(last'.payload) = PayloadOf(categories')
    /\ (last'.inner # {} /\ last' # last) =>
           LET first == Produced(last'.op, last'.input, categories)
               second == Val(last'.inner)
           IN  /\ categories' = Produced(second.op, second.input, first)
               /\ Persisted(be', categories')
               /\ last'.payload = Def(PayloadOf(first))
               /\ second.payload = Def(PayloadOf(categories'))
    /\ Len(pendingCalls') < Len(pendingCalls) =>
           /\ categories' = categories
           /\ be' = be

C24_LastInvokedWins == [][C24_StepOverlap]_vars

\* C24 witness: rejectAll() was invoked from inside the callback of an
\* operation that had consented to analytics, and an operation still awaits
\* its callback.
C24_Witness ==
    /\ last.inner # {}
    /\ Val(last.inner).op = "rejectAll"
    /\ last.payload # {}
    /\ Val(last.payload).analytics
    /\ categories = DefaultCategories
    /\ pendingCalls # <<>>

\* C25: no tracked script is both blocked and executed.
C25_BlockedExcludesExecuted ==
    \A i \in 1..Len(managedScripts) :
        ~(managedScripts[i].blocked /\ managedScripts[i].executed)

\* C26: when evaluate() is called in any reachable state, on its return every
\* tracked iframe whose expression is allowed has the src it had when
\* registered (from data-src or src), is shown and is not marked blocked.
C26_AllowedIframeRestored ==
    LET g == evaluate(GateState, categories)
    IN  \A i \in 1..Len(g.managedIframes) :
            LET iframe == g.managedIframes[i]
            IN  shouldAllow(iframe.category, categories) =>
                    /\ iframe.originalSrc => g.dom[iframe.element].src
                    /\ ~g.dom[iframe.element].hidden
                    /\ ~iframe.blocked

\* C27: a step that puts a replacement script in the document gives it the
\* src or the inline content the script element had when first discovered,
\* also when the script was blocked and scanned again in between.
C27_ReplacementCarriesOriginal ==
    [][\A e \in Elements :
          dom'[e].inserted > dom[e].inserted =>
              /\ dom'[e].newSrc = Page[e].src
              /\ dom'[e].newText = (~Page[e].src /\ Page[e].text)]_vars

\* C28: for each script element at most one replacement has been put in the
\* document, and a managed entry that points to a replacement is the entry
\* whose activation created it, never one registered for the replacement.
C28_ActivatedAtMostOnce ==
    /\ \A e \in Elements : dom[e].inserted <= 1
    /\ \A i \in 1..Len(managedScripts) :
           managedScripts[i].element.node = "inserted" => managedScripts[i].executed

\* C28 witness: the script is tracked twice (by a scan and by the observer),
\* both entries were activated and one replacement is in the document.
C28_Witness ==
    /\ Len(managedScripts) = 2
    /\ \A i \in 1..2 : managedScripts[i].element.of = "s1" /\ managedScripts[i].executed
    /\ dom["s1"].inserted = 1
    /\ observer

====
